---- MODULE Spec2Model ----
(***************************************************************************)
(* Balance ledger and order checkout of fastapi-shop.                      *)
(*                                                                         *)
(* The store is MongoDB: every find_one / find_one_and_update / insert_one *)
(* / update_one is one atomic step, and a request handler may be suspended *)
(* between any two of them.  Money is counted in cents (the 2-decimal      *)
(* quantum of Decimal.quantize(Decimal("0.01"))); amounts arriving in a    *)
(* request are counted in mills (tenths of a cent) before quantization.    *)
(***************************************************************************)
EXTENDS Integers, Sequences, FiniteSets, TLC

\* ---------------------------------------------------------------- bounds
NumWorkers == 2
MaxRequests == 3
MaxOrders == 1

\* ------------------------------------------------------- program universe
Reqs == 1..NumWorkers
Users == {"u1"}
Products == {"p1", "p2"}
InitBalances == {6}
AmountInputs == {4, 40}
ItemLists == { <<[product |-> "p1", quantity |-> 1]>>,
               <<[product |-> "p1", quantity |-> 2], [product |-> "p2", quantity |-> 1]>> }
ProductUpdates == { [field |-> "stock", value |-> 0],
                    [field |-> "status", value |-> "inactive"] }
PriceUpdates == { [field |-> "price", value |-> 1] }
StockQuantities == {1, 2}
OrderUpdates == {"cancelled", "pending"}
UserBodies == { [field |-> "name", value |-> 0], [field |-> "balance", value |-> 9] }
InitProducts == [p \in Products |->
                   IF p = "p1" THEN [price |-> 2, stock |-> 2, status |-> "active"]
                               ELSE [price |-> 3, stock |-> 1, status |-> "active"]]

VARIABLES
    balance,    \* users.balance, in cents
    ledger,     \* the transactions collection, in insertion order
    ledgerAt,   \* history: the stored balance right after each insertion
    orders,     \* the orders collection, indexed by order id 1..Len(orders)
    products,   \* the products collection: price, stock, status
    req,        \* the request each worker is handling, with its locals
    resp,       \* the response sent last: request, HTTP status, error
    started,    \* number of requests accepted so far
    init,       \* history: the balance each user started with
    okDelta,    \* history: signed amounts of deposits/withdraws answered 200
    debits,     \* history: committed checkout debits per order id
    carts,      \* the carts collection, in insertion order
    schema,     \* what the migrations applied so far have left in the store
    migrations, \* the migrations collection: the versions recorded
    applied,    \* history: how many times each up step has completed
    run         \* the run_migrations process: position, run number, outcome

vars == <<balance, ledger, ledgerAt, orders, products, req, resp, started,
          init, okDelta, debits, carts, schema, migrations, applied, run>>

\* the collections of the shop, and those of the carts and the migrations
shopVars == <<balance, ledger, ledgerAt, orders, products, init, okDelta, debits>>
sideVars == <<carts, schema, migrations, applied, run>>

\* ------------------------------------------------------------- helpers

\* Decimal(str(v)).quantize(Decimal("0.01")): mills to cents, ROUND_HALF_EVEN

QuantizeNone(m) ==
    m

Quantize(m) ==
    LET q == m \div 10
        rem == m % 10
    IN  IF rem < 5 THEN q
        ELSE IF rem > 5 THEN q + 1
        ELSE IF q % 2 = 0 THEN q ELSE q + 1

\* TransactionType and the sign of its amount on the balance
Sign(type) ==
    IF type \in {"deposit", "refund"} THEN 1 ELSE -1

Idle ==
    [pc |-> "idle", kind |-> "none", user |-> "none", product |-> "none",
     type |-> "none", status |-> "none",
     raw |-> 0, amt |-> 0, cur |-> 0, new |-> 0, oid |-> 0,
     items |-> <<>>, total |-> 0, snap |-> <<>>, cause |-> "none"]

\* the response to request me: the HTTP status and the error that ended it
Response(me, status, cause) ==
    [kind |-> me.kind, user |-> me.user, product |-> me.product,
     type |-> me.type, oid |-> me.oid, status |-> status, cause |-> cause]

\* the handler of request me returns: worker r is free again
Finish(r, me, status, cause) ==
    /\ req' = [req EXCEPT ![r] = Idle]
    /\ resp' = Response(me, status, cause)

\* the handler of request me is suspended at its next storage call
Continue(r, me) ==
    /\ req' = [req EXCEPT ![r] = me]
    /\ UNCHANGED resp

\* a request is taken by the first worker that holds none
Free(r) ==
    /\ req[r].pc = "idle"
    /\ \A q \in Reqs : q < r => req[q].pc # "idle"

RECURSIVE SumTotal(_)
SumTotal(items) ==
    IF items = <<>> THEN 0
    ELSE Head(items).price * Head(items).quantity + SumTotal(Tail(items))

\* ------------------------------------------- UserService.update_balance
\* One call with the stored balance at the moment of the conditional write:
\* argument checks, then find_one_and_update filtered on the expected
\* balance.  mills is the amount before quantization.
update_balance_blind(stored, current_balance, mills, operation) ==
    LET amount == Quantize(mills)
        new_balance == IF operation = "add" THEN current_balance + amount
                       ELSE current_balance - amount
    IN  IF amount <= 0 THEN [ok |-> FALSE, cause |-> "amount", balance |-> stored]
        ELSE IF new_balance < 0
             THEN [ok |-> FALSE, cause |-> "negative", balance |-> stored]
        ELSE [ok |-> TRUE, cause |-> "none", balance |-> new_balance]

update_balance_unchecked(stored, current_balance, mills, operation) ==
    LET amount == Quantize(mills)
        new_balance == IF operation = "add" THEN current_balance + amount
                       ELSE current_balance - amount
    IN  IF amount <= 0 THEN [ok |-> FALSE, cause |-> "amount", balance |-> stored]
        ELSE IF stored # current_balance
             THEN [ok |-> FALSE, cause |-> "conflict", balance |-> stored]
        ELSE [ok |-> TRUE, cause |-> "none", balance |-> new_balance]

update_balance_torn(stored, current_balance, mills, operation) ==
    LET amount == Quantize(mills)
        new_balance == IF operation = "add" THEN current_balance + amount
                       ELSE current_balance - amount
    IN  IF amount <= 0 THEN [ok |-> FALSE, cause |-> "amount", balance |-> stored]
        ELSE IF new_balance < 0
             THEN [ok |-> FALSE, cause |-> "negative", balance |-> stored]
        ELSE IF stored # current_balance
             THEN [ok |-> FALSE, cause |-> "conflict", balance |-> new_balance]
        ELSE [ok |-> TRUE, cause |-> "none", balance |-> new_balance]

update_balance(stored, current_balance, mills, operation) ==
    LET amount == Quantize(mills)
        new_balance == IF operation = "add" THEN current_balance + amount
                       ELSE current_balance - amount
    IN  IF amount <= 0 THEN [ok |-> FALSE, cause |-> "amount", balance |-> stored]
        ELSE IF new_balance < 0
             THEN [ok |-> FALSE, cause |-> "negative", balance |-> stored]
        ELSE IF stored # current_balance
             THEN [ok |-> FALSE, cause |-> "conflict", balance |-> stored]
        ELSE [ok |-> TRUE, cause |-> "none", balance |-> new_balance]

\* The keywords a call passes against the parameters the callee declares:
\* TransactionService.create_transaction(self, user_id, transaction_data).
\* A keyword outside them makes the call raise TypeError before the body runs.
create_transaction_params == {"user_id", "transaction_data"}

CallBinds(keywords) ==
    keywords \subseteq create_transaction_params

\* -------------------------- /users/deposit, /users/withdraw (users.py)
\* The handler builds TransactionCreate (amount > 0, then quantized) and
\* calls create_transaction(user_id, transaction_data), which reads the
\* user, computes the new balance and rejects an overdraft.

Insufficient(current_balance, amount) ==
    current_balance < amount

UserTxnRead(r, u, type, raw) ==
    /\ Free(r)
    /\ started < MaxRequests
    /\ started' = started + 1
    /\ LET amount == Quantize(raw)
           current_balance == balance[u]
           me == [Idle EXCEPT !.kind = "users", !.user = u, !.type = type]
       IN  IF raw <= 0
           THEN Finish(r, me, 422, "validation")
           ELSE IF type = "withdraw" /\ Insufficient(current_balance, amount)
           THEN Finish(r, me, 400, "insufficient")
           ELSE Continue(r, [me EXCEPT !.pc = "cas", !.raw = raw, !.amt = amount,
                                       !.cur = current_balance,
                                       !.new = current_balance + Sign(type) * amount])
    /\ UNCHANGED <<balance, ledger, ledgerAt, orders, products, init,
                   okDelta, debits,
                   sideVars>>

\* create_transaction: find_one_and_update filtered on the balance it read
CreateTxnCASIgnore(r) ==
    /\ req[r].pc = "cas"
    /\ LET u == req[r].user
       IN  IF balance[u] = req[r].cur
           THEN /\ balance' = [balance EXCEPT ![u] = req[r].new]
                /\ Continue(r, [req[r] EXCEPT !.pc = "insert", !.cur = 0])
           ELSE /\ Continue(r, [req[r] EXCEPT !.pc = "insert", !.cur = 0])
                /\ UNCHANGED balance
    /\ UNCHANGED <<ledger, ledgerAt, orders, products, started, init,
                   okDelta, debits,
                   sideVars>>

CreateTxnCAS(r) ==
    /\ req[r].pc = "cas"
    /\ LET u == req[r].user
       IN  IF balance[u] = req[r].cur
           THEN /\ balance' = [balance EXCEPT ![u] = req[r].new]
                /\ Continue(r, [req[r] EXCEPT !.pc = "insert", !.cur = 0])
           ELSE /\ Finish(r, req[r], 500, "conflict")
                /\ UNCHANGED balance
    /\ UNCHANGED <<ledger, ledgerAt, orders, products, started, init,
                   okDelta, debits,
                   sideVars>>

\* create_transaction: insert_one of the record prepared before the write
CreateTxnInsertReplace(r) ==
    /\ req[r].pc = "insert"
    /\ LET u == req[r].user
       IN  /\ ledger' = <<[user |-> u, type |-> req[r].type, amount |-> req[r].amt,
                           balance |-> req[r].new, reference_id |-> 0]>>
           /\ ledgerAt' = <<balance[u]>>
           /\ okDelta' = [okDelta EXCEPT ![u] = @ + Sign(req[r].type) * req[r].amt]
    /\ Finish(r, req[r], 200, "none")
    /\ UNCHANGED <<balance, orders, products, started, init, debits,
                   sideVars>>

CreateTxnInsertAgain(r) ==
    /\ req[r].pc = "insert"
    /\ LET u == req[r].user
       IN  /\ ledger' = Append(ledger,
                  [user |-> u, type |-> req[r].type, amount |-> req[r].amt,
                   balance |-> req[r].new, reference_id |-> 0])
           /\ ledgerAt' = Append(ledgerAt, balance[u])
           /\ okDelta' = [okDelta EXCEPT ![u] = @ + Sign(req[r].type) * req[r].amt]
           /\ balance' = [balance EXCEPT ![u] = @ + Sign(req[r].type) * req[r].amt]
    /\ Finish(r, req[r], 200, "none")
    /\ UNCHANGED <<orders, products, started, init, debits,
                   sideVars>>

CreateTxnInsert(r) ==
    /\ req[r].pc = "insert"
    /\ LET u == req[r].user
       IN  /\ ledger' = Append(ledger,
                  [user |-> u, type |-> req[r].type, amount |-> req[r].amt,
                   balance |-> req[r].new, reference_id |-> 0])
           /\ ledgerAt' = Append(ledgerAt, balance[u])
           /\ okDelta' = [okDelta EXCEPT ![u] = @ + Sign(req[r].type) * req[r].amt]
    /\ Finish(r, req[r], 200, "none")
    /\ UNCHANGED <<balance, orders, products, started, init, debits,
                   sideVars>>

\* ------------- /transactions/deposit, /transactions/withdraw (transactions.py)
\* get_current_user reads the user document; CURRENT_BALANCE is taken from it.
TxnAuth(r, u, type, raw) ==
    /\ Free(r)
    /\ started < MaxRequests
    /\ started' = started + 1
    /\ LET me == [Idle EXCEPT !.kind = "transactions", !.user = u, !.type = type]
       IN  IF raw <= 0
           THEN Finish(r, me, 422, "validation")
           ELSE Continue(r, [me EXCEPT !.pc = "update", !.raw = raw,
                                       !.cur = balance[u]])
    /\ UNCHANGED <<balance, ledger, ledgerAt, orders, products, init,
                   okDelta, debits,
                   sideVars>>

\* update_balance on CURRENT_BALANCE, then create_transaction called with
\* the keyword current_balance; every exception is answered 500.
TxnUpdateBalance(r) ==
    /\ req[r].pc = "update"
    /\ LET u == req[r].user
           res == update_balance(balance[u], req[r].cur, req[r].raw,
                                 IF req[r].type = "deposit" THEN "add" ELSE "subtract")
           binds == CallBinds({"transaction_data", "user_id", "current_balance"})
       IN  /\ balance' = [balance EXCEPT ![u] = res.balance]
           /\ IF ~res.ok
              THEN Finish(r, req[r], 500, res.cause)
              ELSE /\ ~binds
                   /\ Finish(r, req[r], 500, "typeerror")
    /\ UNCHANGED <<ledger, ledgerAt, orders, products, started, init,
                   okDelta, debits,
                   sideVars>>

\* --------------------------------------------- POST /orders (create_order)
\* requests that will still insert an order
Creating ==
    {q \in Reqs : req[q].pc = "place"}

\* product_map.get(product_id) of a product get_products_by_ids did not return
NotFound ==
    [price |-> 0, stock |-> 0, status |-> "none"]

\* the endpoint: get_products_by_ids for the requested items
CreateOrderRead(r, u, items) ==
    /\ Free(r)
    /\ started < MaxRequests
    /\ Len(orders) + Cardinality(Creating) < MaxOrders
    /\ started' = started + 1
    /\ Continue(r, [Idle EXCEPT !.pc = "place", !.kind = "create_order",
                                 !.user = u, !.items = items,
                                 !.snap = [i \in 1..Len(items) |->
                                             IF items[i].product \in DOMAIN products
                                             THEN products[items[i].product]
                                             ELSE NotFound]])
    /\ UNCHANGED <<balance, ledger, ledgerAt, orders, products, init,
                   okDelta, debits,
                   sideVars>>

\* OrderService.create_order: validate against the products read, price the
\* items, insert the order as pending / pending
CreateOrderInsertRepriced(r) ==
    /\ req[r].pc = "place"
    /\ LET items == req[r].items
           snap == req[r].snap
           priced == [i \in 1..Len(items) |->
                        [product |-> items[i].product,
                         quantity |-> items[i].quantity,
                         price |-> products[items[i].product].price]]
       IN  IF \E i \in 1..Len(items) : snap[i].status # "active"
           THEN /\ Finish(r, req[r], 404, "product_not_found")
                /\ UNCHANGED <<orders, debits>>
           ELSE IF \E i \in 1..Len(items) : snap[i].stock < items[i].quantity
           THEN /\ Finish(r, req[r], 400, "insufficient_stock")
                /\ UNCHANGED <<orders, debits>>
           ELSE /\ orders' = Append(orders,
                       [user |-> req[r].user, items |-> priced,
                        total_amount |-> SumTotal(priced),
                        status |-> "pending", payment_status |-> "pending",
                        transaction_id |-> 0])
                /\ debits' = Append(debits, 0)
                /\ Finish(r, [req[r] EXCEPT !.oid = Len(orders) + 1], 200, "none")
    /\ UNCHANGED <<balance, ledger, ledgerAt, products, started, init,
                   okDelta,
                   sideVars>>

CreateOrderInsertAnyStock(r) ==
    /\ req[r].pc = "place"
    /\ LET items == req[r].items
           snap == req[r].snap
           priced == [i \in 1..Len(items) |->
                        [product |-> items[i].product,
                         quantity |-> items[i].quantity,
                         price |-> snap[i].price]]
       IN  IF \E i \in 1..Len(items) : snap[i].status # "active"
           THEN /\ Finish(r, req[r], 404, "product_not_found")
                /\ UNCHANGED <<orders, debits>>
           ELSE IF FALSE
           THEN /\ Finish(r, req[r], 400, "insufficient_stock")
                /\ UNCHANGED <<orders, debits>>
           ELSE /\ orders' = Append(orders,
                       [user |-> req[r].user, items |-> priced,
                        total_amount |-> SumTotal(priced),
                        status |-> "pending", payment_status |-> "pending",
                        transaction_id |-> 0])
                /\ debits' = Append(debits, 0)
                /\ Finish(r, [req[r] EXCEPT !.oid = Len(orders) + 1], 200, "none")
    /\ UNCHANGED <<balance, ledger, ledgerAt, products, started, init,
                   okDelta,
                   sideVars>>

CreateOrderInsert(r) ==
    /\ req[r].pc = "place"
    /\ LET items == req[r].items
           snap == req[r].snap
           priced == [i \in 1..Len(items) |->
                        [product |-> items[i].product,
                         quantity |-> items[i].quantity,
                         price |-> snap[i].price]]
       IN  IF \E i \in 1..Len(items) : snap[i].status # "active"
           THEN /\ Finish(r, req[r], 404, "product_not_found")
                /\ UNCHANGED <<orders, debits>>
           ELSE IF \E i \in 1..Len(items) : snap[i].stock < items[i].quantity
           THEN /\ Finish(r, req[r], 400, "insufficient_stock")
                /\ UNCHANGED <<orders, debits>>
           ELSE /\ orders' = Append(orders,
                       [user |-> req[r].user, items |-> priced,
                        total_amount |-> SumTotal(priced),
                        status |-> "pending", payment_status |-> "pending",
                        transaction_id |-> 0])
                /\ debits' = Append(debits, 0)
                /\ Finish(r, [req[r] EXCEPT !.oid = Len(orders) + 1], 200, "none")
    /\ UNCHANGED <<balance, ledger, ledgerAt, products, started, init,
                   okDelta,
                   sideVars>>

\* ------------------------------- POST /orders/{order_id}/checkout (orders.py)
\* get_current_user reads the user document; CURRENT_BALANCE is taken from it.
CheckoutAuth(r, u, oid) ==
    /\ Free(r)
    /\ started < MaxRequests
    /\ started' = started + 1
    /\ Continue(r, [Idle EXCEPT !.pc = "order", !.kind = "checkout", !.user = u,
                                 !.type = "payment", !.oid = oid,
                                 !.cur = balance[u]])
    /\ UNCHANGED <<balance, ledger, ledgerAt, orders, products, init,
                   okDelta, debits,
                   sideVars>>

\* the payment statuses a checkout accepts

Payable(payment_status) ==
    payment_status \in {"pending", "failed"}

\* CURRENT_BALANCE < order.total_amount
InsufficientBalanceNever(current_balance, total_amount) ==
    FALSE

InsufficientBalance(current_balance, total_amount) ==
    current_balance < total_amount

\* get_order_by_id(order_id, user_id), then the checks on the order read and
\* on CURRENT_BALANCE
CheckoutOrderRepriced(r) ==
    /\ req[r].pc = "order"
    /\ LET oid == req[r].oid
       IN  IF oid \notin 1..Len(orders) \/ orders[oid].user # req[r].user
           THEN Finish(r, req[r], 404, "order_not_found")
           ELSE IF orders[oid].status # "pending"
           THEN Finish(r, req[r], 400, "order_not_pending")
           ELSE IF ~Payable(orders[oid].payment_status)
           THEN Finish(r, req[r], 400, "payment_not_pending")
           ELSE IF InsufficientBalance(req[r].cur, orders[oid].total_amount)
           THEN Finish(r, req[r], 400, "insufficient_balance")
           ELSE Continue(r, [req[r] EXCEPT !.pc = "products",
                                           !.status = orders[oid].payment_status,
                                           !.items = orders[oid].items,
                                           !.total = SumTotal(
                                               [i \in 1..Len(orders[oid].items) |->
                                                  [orders[oid].items[i] EXCEPT !.price =
                                                      products[orders[oid].items[i].product].price]])])
    /\ UNCHANGED <<balance, ledger, ledgerAt, orders, products, started, init,
                   okDelta, debits,
                   sideVars>>

CheckoutOrderAnyOwner(r) ==
    /\ req[r].pc = "order"
    /\ LET oid == req[r].oid
       IN  IF oid \notin 1..Len(orders)
           THEN Finish(r, req[r], 404, "order_not_found")
           ELSE IF orders[oid].status # "pending"
           THEN Finish(r, req[r], 400, "order_not_pending")
           ELSE IF ~Payable(orders[oid].payment_status)
           THEN Finish(r, req[r], 400, "payment_not_pending")
           ELSE IF InsufficientBalance(req[r].cur, orders[oid].total_amount)
           THEN Finish(r, req[r], 400, "insufficient_balance")
           ELSE Continue(r, [req[r] EXCEPT !.pc = "products",
                                           !.status = orders[oid].payment_status,
                                           !.items = orders[oid].items,
                                           !.total = orders[oid].total_amount])
    /\ UNCHANGED <<balance, ledger, ledgerAt, orders, products, started, init,
                   okDelta, debits,
                   sideVars>>

CheckoutOrder(r) ==
    /\ req[r].pc = "order"
    /\ LET oid == req[r].oid
       IN  IF oid \notin 1..Len(orders) \/ orders[oid].user # req[r].user
           THEN Finish(r, req[r], 404, "order_not_found")
           ELSE IF orders[oid].status # "pending"
           THEN Finish(r, req[r], 400, "order_not_pending")
           ELSE IF ~Payable(orders[oid].payment_status)
           THEN Finish(r, req[r], 400, "payment_not_pending")
           ELSE IF InsufficientBalance(req[r].cur, orders[oid].total_amount)
           THEN Finish(r, req[r], 400, "insufficient_balance")
           ELSE Continue(r, [req[r] EXCEPT !.pc = "products",
                                           !.status = orders[oid].payment_status,
                                           !.items = orders[oid].items,
                                           !.total = orders[oid].total_amount])
    /\ UNCHANGED <<balance, ledger, ledgerAt, orders, products, started, init,
                   okDelta, debits,
                   sideVars>>

\* get_products_by_ids for the line items, then the checks on each product
CheckoutProducts(r) ==
    /\ req[r].pc = "products"
    /\ LET items == req[r].items
           found == {items[i].product : i \in 1..Len(items)} \cap DOMAIN products
       IN  IF Cardinality(found) # Len(items)
           THEN Finish(r, req[r], 400, "products_not_found")
           ELSE IF \E i \in 1..Len(items) : products[items[i].product].status # "active"
           THEN Finish(r, req[r], 400, "product_not_active")
           ELSE IF \E i \in 1..Len(items) :
                       products[items[i].product].stock < items[i].quantity
           THEN Finish(r, req[r], 400, "insufficient_stock")
           ELSE Continue(r, [req[r] EXCEPT !.pc = "debit", !.items = <<>>])
    /\ UNCHANGED <<balance, ledger, ledgerAt, orders, products, started, init,
                   okDelta, debits,
                   sideVars>>

\* update_balance(CURRENT_BALANCE, total_amount, "subtract"), then
\* create_transaction called with the keyword current_balance; whatever is
\* raised is caught by the handler of the first try block
CheckoutDebit(r) ==
    /\ req[r].pc = "debit"
    /\ LET u == req[r].user
           oid == req[r].oid
           res == update_balance(balance[u], req[r].cur, req[r].total * 10, "subtract")
           binds == CallBinds({"transaction_data", "user_id", "current_balance"})
       IN  /\ balance' = [balance EXCEPT ![u] = res.balance]
           /\ IF ~res.ok
              THEN /\ Continue(r, [req[r] EXCEPT !.pc = "payment_failed",
                                                   !.cause = res.cause,
                                                   !.cur = 0, !.total = 0])
                   /\ UNCHANGED debits
              ELSE /\ ~binds
                   /\ Continue(r, [req[r] EXCEPT !.pc = "payment_failed",
                                                   !.cause = "typeerror",
                                                   !.cur = 0, !.total = 0])
                   /\ debits' = [debits EXCEPT ![oid] = @ + 1]
    /\ UNCHANGED <<ledger, ledgerAt, orders, products, started, init,
                   okDelta,
                   sideVars>>

\* OrderService.update_order_payment_status: update_one by order id
update_order_payment_status_keep(oid, payment_status, transaction_id) ==
    orders' = [orders EXCEPT ![oid].payment_status = "pending"]

update_order_payment_status(oid, payment_status, transaction_id) ==
    orders' = [orders EXCEPT ![oid].payment_status = payment_status,
                             ![oid].transaction_id =
                                 IF transaction_id # 0 THEN transaction_id ELSE @]

\* except Exception: update_order_payment_status(order_id, FAILED), answer 500
CheckoutPaymentFailedGeneric(r) ==
    /\ req[r].pc = "payment_failed"
    /\ update_order_payment_status(req[r].oid, "failed", 0)
    /\ Finish(r, req[r], 500, "failed")
    /\ UNCHANGED <<balance, ledger, ledgerAt, products, started, init,
                   okDelta, debits,
                   sideVars>>

CheckoutPaymentFailedRefund(r) ==
    /\ req[r].pc = "payment_failed"
    /\ update_order_payment_status(req[r].oid, "failed", 0)
    /\ Finish(r, req[r], 500, req[r].cause)
    /\ balance' = [balance EXCEPT ![req[r].user] =
                      IF req[r].cause = "typeerror"
                      THEN @ + orders[req[r].oid].total_amount ELSE @]
    /\ UNCHANGED <<ledger, ledgerAt, products, started, init, okDelta, debits,
                   sideVars>>

CheckoutPaymentFailed(r) ==
    /\ req[r].pc = "payment_failed"
    /\ update_order_payment_status(req[r].oid, "failed", 0)
    /\ Finish(r, req[r], 500, req[r].cause)
    /\ UNCHANGED <<balance, ledger, ledgerAt, products, started, init,
                   okDelta, debits,
                   sideVars>>

\* ------------------------------------ PUT /orders/{order_id} (orders.py)
\* the status a user may ask for
UserMayRequestAny(status) ==
    TRUE

UserMayRequest(status) ==
    status = "cancelled"

\* get_order_by_id(order_id, user_id), then the checks on the requested
\* status against the order read
UpdateOrderReadAnyState(r, u, oid, status) ==
    /\ Free(r)
    /\ started < MaxRequests
    /\ started' = started + 1
    /\ LET me == [Idle EXCEPT !.kind = "update_order", !.user = u, !.oid = oid,
                              !.status = status]
       IN  IF oid \notin 1..Len(orders) \/ orders[oid].user # u
           THEN Finish(r, me, 404, "order_not_found")
           ELSE IF ~UserMayRequest(status)
           THEN Finish(r, me, 403, "only_cancel")
           ELSE Continue(r, [me EXCEPT !.pc = "set_status"])
    /\ UNCHANGED <<balance, ledger, ledgerAt, orders, products, init,
                   okDelta, debits,
                   sideVars>>

UpdateOrderRead(r, u, oid, status) ==
    /\ Free(r)
    /\ started < MaxRequests
    /\ started' = started + 1
    /\ LET me == [Idle EXCEPT !.kind = "update_order", !.user = u, !.oid = oid,
                              !.status = status]
       IN  IF oid \notin 1..Len(orders) \/ orders[oid].user # u
           THEN Finish(r, me, 404, "order_not_found")
           ELSE IF ~UserMayRequest(status)
           THEN Finish(r, me, 403, "only_cancel")
           ELSE IF status = "cancelled" /\ orders[oid].status # "pending"
           THEN Finish(r, me, 400, "order_not_pending")
           ELSE Continue(r, [me EXCEPT !.pc = "set_status"])
    /\ UNCHANGED <<balance, ledger, ledgerAt, orders, products, init,
                   okDelta, debits,
                   sideVars>>

\* OrderService.update_order: find_one_and_update by order id and user id
\* with $set of the fields the request carries
UpdateOrderWrite(r) ==
    /\ req[r].pc = "set_status"
    /\ orders' = [orders EXCEPT ![req[r].oid].status = req[r].status]
    /\ Finish(r, req[r], 200, "none")
    /\ UNCHANGED <<balance, ledger, ledgerAt, products, started, init,
                   okDelta, debits,
                   sideVars>>

\* ------------------- PUT /users/me (users.py), PUT /admin/users/{user_id}
\* the fields of the request model: a body field outside them is dropped by
\* model_dump(exclude_unset=True)
UserUpdateByAdmin ==
    {"name", "avatar", "balance"}

UserUpdate ==
    {"name", "avatar"}

\* find_one_and_update on the user with $set of the fields accepted
SetUser(u, body) ==
    balance' = [balance EXCEPT ![u] =
                   IF body.field \in UserUpdate /\ body.field = "balance"
                   THEN body.value ELSE @]

UpdateProfile(u, body) ==
    /\ started < MaxRequests
    /\ started' = started + 1
    /\ SetUser(u, body)
    /\ resp' = Response([Idle EXCEPT !.kind = "update_profile", !.user = u], 200, "none")
    /\ UNCHANGED <<ledger, ledgerAt, orders, products, req, init, okDelta, debits,
                   sideVars>>

AdminUpdateUser(u, body) ==
    /\ started < MaxRequests
    /\ started' = started + 1
    /\ SetUser(u, body)
    /\ resp' = Response([Idle EXCEPT !.kind = "admin_update_user", !.user = u], 200, "none")
    /\ UNCHANGED <<ledger, ledgerAt, orders, products, req, init, okDelta, debits,
                   sideVars>>

\* ---------------------------- PUT /admin/products/{product_id} (admin)
\* find_one_and_update with $set of the fields the request carries
AdminUpdateProduct(p, upd) ==
    /\ started < MaxRequests
    /\ started' = started + 1
    /\ products' = [products EXCEPT ![p] =
                      IF upd.field = "stock" THEN [@ EXCEPT !.stock = upd.value]
                      ELSE IF upd.field = "price" THEN [@ EXCEPT !.price = upd.value]
                      ELSE [@ EXCEPT !.status = upd.value]]
    /\ UNCHANGED <<balance, ledger, ledgerAt, orders, req, resp, init,
                   okDelta, debits,
                   sideVars>>

\* ------------------------------------------- ProductService.update_stock
\* The argument checks and, for a subtraction, get_product_by_id (active
\* products only) with the sufficiency check on the product read.
AdjustCheck(r, p, quantity, operation) ==
    /\ Free(r)
    /\ started < MaxRequests
    /\ started' = started + 1
    /\ LET me == [Idle EXCEPT !.kind = "update_stock", !.product = p,
                              !.type = operation]
       IN  IF quantity < 0
           THEN Finish(r, me, 400, "quantity")
           ELSE IF operation = "subtract" /\ products[p].status # "active"
           THEN Finish(r, me, 404, "product_not_found")
           ELSE IF operation = "subtract" /\ products[p].stock < quantity
           THEN Finish(r, me, 400, "insufficient_stock")
           ELSE Continue(r, [me EXCEPT !.pc = "inc", !.amt = quantity])
    /\ UNCHANGED <<balance, ledger, ledgerAt, orders, products, init,
                   okDelta, debits,
                   sideVars>>

\* find_one_and_update by product id with $inc of the signed quantity
AdjustInc(r) ==
    /\ req[r].pc = "inc"
    /\ LET p == req[r].product
           by == IF req[r].type = "add" THEN req[r].amt ELSE 0 - req[r].amt
       IN  products' = [products EXCEPT ![p].stock = @ + by]
    /\ Finish(r, req[r], 200, "none")
    /\ UNCHANGED <<balance, ledger, ledgerAt, orders, started, init,
                   okDelta, debits,
                   sideVars>>

\* ------------------------------------- GET /orders/{order_id} (orders.py)
\* get_order_by_id(order_id, user_id): find_one by order id and user id
GetOrder(r, u, oid) ==
    /\ Free(r)
    /\ started < MaxRequests
    /\ started' = started + 1
    /\ LET me == [Idle EXCEPT !.kind = "get_order", !.user = u, !.oid = oid]
       IN  IF oid \notin 1..Len(orders) \/ orders[oid].user # u
           THEN Finish(r, me, 404, "order_not_found")
           ELSE Finish(r, me, 200, "none")
    /\ UNCHANGED <<balance, ledger, ledgerAt, orders, products, init,
                   okDelta, debits, sideVars>>

\* ------------------------------------------ GET /carts, PUT /carts (carts.py)
\* the carts of user u, by position in the collection
CartsOf(u) ==
    {i \in 1..Len(carts) : carts[i].user = u}

\* get_cart: find_one by user id
GetCartFind(r, u) ==
    /\ Free(r)
    /\ started < MaxRequests
    /\ started' = started + 1
    /\ LET me == [Idle EXCEPT !.kind = "get_cart", !.user = u]
       IN  IF CartsOf(u) # {}
           THEN Finish(r, me, 200, "none")
           ELSE Continue(r, [me EXCEPT !.pc = "new_cart"])
    /\ UNCHANGED <<shopVars, sideVars>>

\* get_cart: insert_one of the empty cart when find_one returned nothing; a
\* unique index on carts.user_id would make a second insert raise
GetCartInsert(r) ==
    /\ req[r].pc = "new_cart"
    /\ IF "carts.user_id_1" \in schema /\ CartsOf(req[r].user) # {}
       THEN /\ Finish(r, req[r], 500, "duplicate_key")
            /\ UNCHANGED carts
       ELSE /\ carts' = Append(carts, [user |-> req[r].user, items |-> <<>>])
            /\ Finish(r, req[r], 200, "none")
    /\ UNCHANGED <<shopVars, started, schema, migrations, applied, run>>

\* upsert_cart: find_one_and_update by user id with $set of the items and
\* upsert = True; with several matches the store updates one of them
UpsertCart(u, items) ==
    /\ started < MaxRequests
    /\ started' = started + 1
    /\ IF CartsOf(u) = {}
       THEN carts' = Append(carts, [user |-> u, items |-> items])
       ELSE \E i \in CartsOf(u) : carts' = [carts EXCEPT ![i].items = items]
    /\ resp' = Response([Idle EXCEPT !.kind = "upsert_cart", !.user = u,
                                     !.items = items], 200, "none")
    /\ UNCHANGED <<shopVars, req, schema, migrations, applied, run>>

\* ------------------------------------------------- scripts/migrate.py
\* the migrations run_migrations lists, in order
MIGRATIONS ==
    <<"20250101_001_add_user_roles", "20250101_002_add_user_indexes">>

\* what the up step of a migration leaves in the store, in the order of its
\* storage calls
Up(version) ==
    CASE version = "20250101_001_add_user_roles" -> <<"users.role", "users.admin">>
      [] version = "20250101_002_add_user_indexes" ->
             <<"users.username_1", "users.email_1">>
      [] version = "20250111_001_add_cart_indexes" -> <<"carts.user_id_1">>

NoRun ==
    [pc |-> "idle", i |-> 0, error |-> "none"]

\* run_migrations starts: the migrations collection and its unique index on
\* version are created when the collection does not exist
RunStart ==
    /\ run.pc = "idle"
    /\ started < MaxRequests
    /\ started' = started + 1
    /\ schema' = schema \cup {"migrations.version_1"}
    /\ run' = [pc |-> "find", i |-> 1, error |-> "none"]
    /\ UNCHANGED <<shopVars, req, resp, carts, migrations, applied>>

\* the loop head: find_one of the version in the migrations collection; a
\* version found there is skipped
RunFindAlways ==
    /\ run.pc = "find"
    /\ IF run.i > Len(MIGRATIONS)
       THEN run' = NoRun
       ELSE run' = [run EXCEPT !.pc = "up"]
    /\ UNCHANGED <<shopVars, req, resp, started, carts, schema, migrations,
                   applied>>

RunFind ==
    /\ run.pc = "find"
    /\ IF run.i > Len(MIGRATIONS)
       THEN run' = NoRun
       ELSE IF MIGRATIONS[run.i] \in migrations
       THEN run' = [run EXCEPT !.i = @ + 1]
       ELSE run' = [run EXCEPT !.pc = "up"]
    /\ UNCHANGED <<shopVars, req, resp, started, carts, schema, migrations,
                   applied>>

\* migration_class.up(db): its first done storage calls go through; when one
\* raises the exception is re-raised and ends the run
RunUp(done) ==
    /\ run.pc = "up"
    /\ done \in 0..Len(Up(MIGRATIONS[run.i]))
    /\ LET version == MIGRATIONS[run.i]
       IN  /\ schema' = schema \cup {Up(version)[k] : k \in 1..done}
           /\ IF done = Len(Up(version))
              THEN /\ applied' = Append(applied, version)
                   /\ run' = [run EXCEPT !.pc = "record"]
              ELSE /\ run' = [NoRun EXCEPT !.error = version]
                   /\ UNCHANGED applied
    /\ UNCHANGED <<shopVars, req, resp, started, carts, migrations>>

\* insert_one of the version into the migrations collection
RunRecord ==
    /\ run.pc = "record"
    /\ migrations' = migrations \cup {MIGRATIONS[run.i]}
    /\ run' = [run EXCEPT !.pc = "find", !.i = @ + 1]
    /\ UNCHANGED <<shopVars, req, resp, started, carts, schema, applied>>

\* the carts collection and the migrations start empty
InitSide ==
    /\ carts = <<>>
    /\ schema = {}
    /\ migrations = {}
    /\ applied = <<>>
    /\ run = NoRun

Init ==
    /\ balance \in [Users -> InitBalances]
    /\ init = balance
    /\ ledger = <<>>
    /\ ledgerAt = <<>>
    /\ orders = <<>>
    /\ products = InitProducts
    /\ req = [r \in Reqs |-> Idle]
    /\ resp = Response(Idle, 0, "none")
    /\ started = 0
    /\ okDelta = [u \in Users |-> 0]
    /\ debits = <<>>
    /\ InitSide

Next ==
    \/ \E p \in Products, upd \in ProductUpdates : AdminUpdateProduct(p, upd)
    \/ \E r \in Reqs :
            \/ \E u \in Users, type \in {"deposit", "withdraw"}, raw \in AmountInputs :
                  \/ UserTxnRead(r, u, type, raw)
                  \/ TxnAuth(r, u, type, raw)
            \/ CreateTxnCAS(r)
            \/ CreateTxnInsert(r)
            \/ TxnUpdateBalance(r)
            \/ \E u \in Users, items \in ItemLists : CreateOrderRead(r, u, items)
            \/ CreateOrderInsert(r)
            \/ \E u \in Users, oid \in 1..MaxOrders : CheckoutAuth(r, u, oid)
            \/ CheckoutOrder(r)
            \/ CheckoutProducts(r)
            \/ CheckoutDebit(r)
            \/ CheckoutPaymentFailed(r)

Spec == Init /\ [][Next]_vars

\* The Stock Adjuster driven at its service interface by concurrent callers
StockNext ==
    \E r \in Reqs :
        \/ \E p \in Products, quantity \in StockQuantities,
              operation \in {"add", "subtract"} : AdjustCheck(r, p, quantity, operation)
        \/ AdjustInc(r)

SpecStock == Init /\ [][StockNext]_vars

\* Orders: creation, checkout and user updates, with products and the
\* balance changing underneath them
OrdersNext ==
    \/ \E p \in Products, upd \in ProductUpdates \cup PriceUpdates :
          AdminUpdateProduct(p, upd)
    \/ \E r \in Reqs :
            \/ \E u \in Users, items \in ItemLists : CreateOrderRead(r, u, items)
            \/ CreateOrderInsert(r)
            \/ \E u \in Users, oid \in 1..MaxOrders : CheckoutAuth(r, u, oid)
            \/ CheckoutOrder(r)
            \/ CheckoutProducts(r)
            \/ CheckoutDebit(r)
            \/ CheckoutPaymentFailed(r)
            \/ \E u \in Users, oid \in 1..MaxOrders, status \in OrderUpdates :
                  UpdateOrderRead(r, u, oid, status)
            \/ UpdateOrderWrite(r)
            \/ \E u \in Users, type \in {"deposit", "withdraw"}, raw \in AmountInputs :
                  TxnAuth(r, u, type, raw)
            \/ TxnUpdateBalance(r)

SpecOrders == Init /\ [][OrdersNext]_vars

\* Two withdrawals of 50.00 against a balance of 60.00, through either
\* withdraw endpoint
WithdrawBalance == 6000
WithdrawAmount == 50000

InitWithdraw ==
    /\ balance = [u \in Users |-> WithdrawBalance]
    /\ init = balance
    /\ ledger = <<>>
    /\ ledgerAt = <<>>
    /\ orders = <<>>
    /\ products = InitProducts
    /\ req = [r \in Reqs |-> Idle]
    /\ resp = Response(Idle, 0, "none")
    /\ started = 0
    /\ okDelta = [u \in Users |-> 0]
    /\ debits = <<>>
    /\ InitSide

WithdrawNext ==
    \E r \in Reqs :
        \/ \E u \in Users : UserTxnRead(r, u, "withdraw", WithdrawAmount)
        \/ \E u \in Users : TxnAuth(r, u, "withdraw", WithdrawAmount)
        \/ CreateTxnCAS(r)
        \/ CreateTxnInsert(r)
        \/ TxnUpdateBalance(r)

SpecWithdraw == InitWithdraw /\ [][WithdrawNext]_vars

\* Users: every request that reads or writes a user document
UsersNext ==
    \/ \E u \in Users, body \in UserBodies :
          \/ UpdateProfile(u, body)
          \/ AdminUpdateUser(u, body)
    \/ \E r \in Reqs :
            \/ \E u \in Users, type \in {"deposit", "withdraw"}, raw \in AmountInputs :
                  \/ UserTxnRead(r, u, type, raw)
                  \/ TxnAuth(r, u, type, raw)
            \/ CreateTxnCAS(r)
            \/ CreateTxnInsert(r)
            \/ TxnUpdateBalance(r)
            \/ \E u \in Users, items \in ItemLists : CreateOrderRead(r, u, items)
            \/ CreateOrderInsert(r)
            \/ \E u \in Users, oid \in 1..MaxOrders : CheckoutAuth(r, u, oid)
            \/ CheckoutOrder(r)
            \/ CheckoutProducts(r)
            \/ CheckoutDebit(r)
            \/ CheckoutPaymentFailed(r)

SpecUsers == Init /\ [][UsersNext]_vars

\* The Stock Adjuster with the catalogue changing underneath it
CatalogNext ==
    \/ StockNext
    \/ \E p \in Products, upd \in ProductUpdates : AdminUpdateProduct(p, upd)

SpecCatalog == Init /\ [][CatalogNext]_vars

\* The ledger: deposits and withdrawals through both pairs of endpoints
LedgerNext ==
    \E r \in Reqs :
        \/ \E u \in Users, type \in {"deposit", "withdraw"}, raw \in AmountInputs :
              \/ UserTxnRead(r, u, type, raw)
              \/ TxnAuth(r, u, type, raw)
        \/ CreateTxnCAS(r)
        \/ CreateTxnInsert(r)
        \/ TxnUpdateBalance(r)

SpecLedger == Init /\ [][LedgerNext]_vars

\* Carts, with run_migrations started any number of times, one run at a time
UpCalls == 0..2

CartsNext ==
    \/ \E u \in Users, items \in ItemLists : UpsertCart(u, items)
    \/ \E r \in Reqs :
            \/ \E u \in Users : GetCartFind(r, u)
            \/ GetCartInsert(r)
    \/ RunStart
    \/ RunFind
    \/ \E done \in UpCalls : RunUp(done)
    \/ RunRecord

SpecCarts == Init /\ [][CartsNext]_vars

\* Two users, each creating orders and asking for any order by its id
Owners == Users \cup {"u2"}

InitOwners ==
    /\ balance \in [Owners -> InitBalances]
    /\ init = balance
    /\ ledger = <<>>
    /\ ledgerAt = <<>>
    /\ orders = <<>>
    /\ products = InitProducts
    /\ req = [r \in Reqs |-> Idle]
    /\ resp = Response(Idle, 0, "none")
    /\ started = 0
    /\ okDelta = [u \in Owners |-> 0]
    /\ debits = <<>>
    /\ InitSide

OwnersNext ==
    \E r \in Reqs :
        \/ \E u \in Owners, items \in ItemLists : CreateOrderRead(r, u, items)
        \/ CreateOrderInsert(r)
        \/ \E u \in Owners, oid \in 1..MaxOrders : CheckoutAuth(r, u, oid)
        \/ CheckoutOrder(r)
        \/ CheckoutProducts(r)
        \/ CheckoutDebit(r)
        \/ CheckoutPaymentFailed(r)
        \/ \E u \in Owners, oid \in 1..MaxOrders, status \in OrderUpdates :
              UpdateOrderRead(r, u, oid, status)
        \/ UpdateOrderWrite(r)
        \/ \E u \in Owners, oid \in 1..MaxOrders : GetOrder(r, u, oid)

SpecOwners == InitOwners /\ [][OwnersNext]_vars

\* Order creation with the catalogue changing underneath it; the requests
\* also name a product that does not exist and a quantity above the stock
OrderInputs ==
    ItemLists \cup { <<[product |-> "p9", quantity |-> 1]>>,
                     <<[product |-> "p2", quantity |-> 2]>> }

CreateNext ==
    \/ \E p \in Products, upd \in ProductUpdates : AdminUpdateProduct(p, upd)
    \/ \E r \in Reqs :
            \/ \E u \in Users, items \in OrderInputs : CreateOrderRead(r, u, items)
            \/ CreateOrderInsert(r)

SpecCreate == Init /\ [][CreateNext]_vars

\* ------------------------------------------------------------ properties

\* no request is in flight
Quiescent ==
    \A r \in Reqs : req[r].pc = "idle"

\* what the checkouts of user u have taken from the balance so far
RECURSIVE CheckoutDebited(_, _)
CheckoutDebited(u, n) ==
    IF n = 0 THEN 0
    ELSE (IF orders[n].user = u THEN debits[n] * orders[n].total_amount ELSE 0)
         + CheckoutDebited(u, n - 1)

\* the amount of the balance write request r is about to make
WriteAmount(r) ==
    CASE req[r].pc = "cas" -> req[r].amt
      [] req[r].pc = "update" -> Quantize(req[r].raw)
      [] req[r].pc = "debit" -> req[r].total
      [] OTHER -> 0

\* this step is request r's balance write, and the write went through
WriteOk(r) ==
    \/ req[r].pc = "cas" /\ req'[r].pc = "insert"
    \/ req[r].pc = "update" /\ req'[r] # req[r] /\ resp'.cause = "typeerror"
    \/ req[r].pc = "debit" /\ req'[r].cause = "typeerror"

\* C1: once all requests have completed, the balance is the initial balance
\* plus the signed amounts of exactly the deposits and withdraws that
\* reported success (checkout debits accounted for separately).
C1_BalanceIsSumOfSuccesses ==
    Quiescent =>
        \A u \in Users :
            balance[u] = init[u] + okDelta[u] - CheckoutDebited(u, Len(orders))

\* C2: the balance is never negative, and a withdraw or payment write goes
\* through only with an amount that the balance stored at that moment covers.
C2_NeverOverdrawn ==
    [][\A u \in Users :
          /\ balance[u] >= 0
          /\ balance'[u] >= 0
          /\ \A r \in Reqs :
                (WriteOk(r) /\ req[r].user = u /\ Sign(req[r].type) = -1)
                    => /\ WriteAmount(r) <= balance[u]
                       /\ balance'[u] = balance[u] - WriteAmount(r)]_vars

C2_Witness ==
    /\ resp.type = "withdraw" /\ resp.status = 200
    /\ \E o \in 1..Len(debits) : debits[o] > 0

\* C3: the balance is debited for one order at most once.
C3_DebitedAtMostOnce ==
    \A o \in 1..Len(debits) : debits[o] <= 1

\* C4: stock is never negative, and a decrement goes through only with a
\* quantity that the stock stored at that moment covers.
C4_StockNeverNegative ==
    [][\A p \in Products :
          /\ products'[p].stock >= 0
          /\ \A r \in Reqs :
                (req[r].pc = "inc" /\ req'[r] # req[r] /\ req[r].product = p
                 /\ req[r].type = "subtract")
                    => req[r].amt <= products[p].stock]_vars

\* the record of the same user that precedes record i in the ledger, or 0
Previous(i) ==
    LET earlier == {j \in 1..(i - 1) : ledger[j].user = ledger[i].user}
    IN  IF earlier = {} THEN 0
        ELSE CHOOSE j \in earlier : \A k \in earlier : k <= j

\* C6: every record's balance field is the balance stored right after the
\* record was created, and consecutive records of one user differ by the
\* later record's signed amount.
C6_LedgerSnapshots ==
    \A i \in 1..Len(ledger) :
        /\ ledger[i].balance = ledgerAt[i]
        /\ Previous(i) # 0 =>
              ledger[i].balance - ledger[Previous(i)].balance
                  = Sign(ledger[i].type) * ledger[i].amount

\* request r is about to make a conditional balance write that passes the
\* argument checks but whose expected balance is not the stored one
StaleWrite(r) ==
    /\ req[r].pc \in {"cas", "update", "debit"}
    /\ req[r].cur # balance[req[r].user]
    /\ req[r].pc \in {"update", "debit"} =>
          /\ WriteAmount(r) > 0
          /\ req[r].cur + Sign(req[r].type) * WriteAmount(r) >= 0

\* C7: a balance write whose expected balance differs from the stored one
\* writes nothing and fails as a concurrent modification.
C7_StaleWriteIsLockLoss ==
    [][\A r \in Reqs :
          (StaleWrite(r) /\ req'[r] # req[r])
              => /\ balance' = balance
                 /\ ledger' = ledger
                 /\ IF req[r].pc = "debit" THEN req'[r].cause = "conflict"
                    ELSE resp'.cause = "conflict"]_vars

C7_Witness ==
    /\ resp.kind \in {"transactions", "checkout"}
    /\ resp.cause = "conflict"

\* the errors with which a checkout is rejected by its precondition checks
PreconditionErrors ==
    {"order_not_found", "order_not_pending", "payment_not_pending",
     "insufficient_balance", "products_not_found", "product_not_active",
     "insufficient_stock"}

PaymentRecords(u) ==
    {i \in 1..Len(ledger) : ledger[i].user = u /\ ledger[i].type = "payment"}

\* C8: a checkout whose preconditions hold and that runs alone ends with the
\* balance debited by the total, one payment record, the order paid and
\* confirmed, and the stock of every line item reduced by its quantity.
C8_QuietCheckoutSettles ==
    (/\ resp.kind = "checkout" /\ Quiescent
     /\ started = 2 /\ Len(orders) = 1
     /\ resp.cause \notin PreconditionErrors)
            => LET u == resp.user
                   order == orders[resp.oid]
               IN  /\ resp.status = 200
                   /\ balance[u] = init[u] - order.total_amount
                   /\ Cardinality(PaymentRecords(u)) = 1
                   /\ \A i \in PaymentRecords(u) :
                         /\ ledger[i].amount = order.total_amount
                         /\ ledger[i].balance = init[u] - order.total_amount
                   /\ order.payment_status = "paid"
                   /\ order.status = "confirmed"
                   /\ \A k \in 1..Len(order.items) :
                         products[order.items[k].product].stock
                             = InitProducts[order.items[k].product].stock
                               - order.items[k].quantity

\* a precondition of the checkout r is about to check does not hold
PreconditionFails(r) ==
    \/ /\ req[r].pc = "order"
       /\ req[r].oid \in 1..Len(orders)
       /\ orders[req[r].oid].user = req[r].user
       /\ \/ orders[req[r].oid].status # "pending"
          \/ orders[req[r].oid].payment_status \notin {"pending", "failed"}
          \/ req[r].cur < orders[req[r].oid].total_amount
    \/ /\ req[r].pc = "products"
       /\ \E k \in 1..Len(req[r].items) :
             \/ req[r].items[k].product \notin DOMAIN products
             \/ products[req[r].items[k].product].status # "active"
             \/ products[req[r].items[k].product].stock < req[r].items[k].quantity

\* C10: a checkout with a failing precondition is rejected with balance,
\* ledger, stock and order untouched; a balance below the total is reported
\* as insufficient balance.
C10_RejectedBeforeMutation ==
    [][\A r \in Reqs :
          (req[r].kind = "checkout" /\ PreconditionFails(r) /\ req'[r] # req[r])
              => /\ req'[r].pc = "idle"
                 /\ resp'.kind = "checkout" /\ resp'.status = 400
                 /\ UNCHANGED <<balance, ledger, products, orders>>
                 /\ (/\ req[r].pc = "order"
                     /\ orders[req[r].oid].status = "pending"
                     /\ orders[req[r].oid].payment_status \in {"pending", "failed"})
                        => resp'.cause = "insufficient_balance"]_vars

C10_Witness ==
    /\ resp.kind = "checkout"
    /\ resp.cause = "insufficient_balance"
    /\ orders[resp.oid].status = "pending"
    /\ orders[resp.oid].payment_status = "pending"
    /\ balance[resp.user] < orders[resp.oid].total_amount

\* the errors update_balance raises
MutatorErrors ==
    {"amount", "negative", "conflict"}

\* this step is checkout r's debit, and update_balance raised
DebitFails(r) ==
    /\ req[r].pc = "debit"
    /\ req'[r].pc = "payment_failed"
    /\ req'[r].cause \in MutatorErrors

\* this step ends checkout r after the exception ex was caught
EndsAfter(r, ex) ==
    /\ req[r].pc = "payment_failed"
    /\ req[r].cause \in ex
    /\ req'[r] # req[r]

\* C11: when the debit of a checkout fails, the balance is not written, and
\* the checkout ends at once with an error: balance, ledger and stock stay
\* as they are, the order's status is not touched and its payment_status is
\* pending or failed.
C11_FailedDebitEndsCheckout ==
    [][\A r \in Reqs :
          /\ DebitFails(r) => UNCHANGED <<balance, ledger, products, orders>>
          /\ EndsAfter(r, MutatorErrors) =>
                /\ req'[r].pc = "idle"
                /\ resp'.kind = "checkout" /\ resp'.status >= 400
                /\ UNCHANGED <<balance, ledger, products>>
                /\ orders'[req[r].oid].status = orders[req[r].oid].status
                /\ orders'[req[r].oid].payment_status \in {"pending", "failed"}]_vars

C11_Witness ==
    /\ Quiescent
    /\ resp.kind = "checkout" /\ resp.cause = "conflict"
    /\ orders[resp.oid].status = "pending"
    /\ orders[resp.oid].payment_status = "failed"
    /\ debits[resp.oid] = 1

\* C12: when recording the payment fails after the debit went through, the
\* checkout sets payment_status to failed, leaves the order's status, the
\* debited balance and the stock as they are, and writes no record.
C12_FailedRecordMarksFailed ==
    [][\A r \in Reqs :
          /\ (req[r].pc = "debit" /\ req'[r].pc = "payment_failed"
              /\ req'[r].cause \notin MutatorErrors) =>
                /\ balance'[req[r].user] = balance[req[r].user] - req[r].total
                /\ UNCHANGED <<ledger, products, orders>>
          /\ EndsAfter(r, {"typeerror"}) =>
                /\ req'[r].pc = "idle"
                /\ resp'.kind = "checkout" /\ resp'.status = 500
                /\ orders'[req[r].oid].payment_status = "failed"
                /\ orders'[req[r].oid].status = orders[req[r].oid].status
                /\ UNCHANGED <<balance, ledger, products>>]_vars

C12_Witness ==
    /\ Quiescent
    /\ resp.kind = "checkout" /\ resp.cause = "typeerror"
    /\ orders[resp.oid].status = "pending"
    /\ orders[resp.oid].payment_status = "failed"
    /\ balance[resp.user] = init[resp.user] - orders[resp.oid].total_amount
    /\ products = InitProducts

\* the states a finished checkout may leave its order in
NamedStates ==
    { <<"pending", "pending">>, <<"pending", "failed">>,
      <<"confirmed", "paid">>, <<"failed", "paid">> }

\* C14: a checkout that passed its preconditions ends with its order in one
\* of the named states, and a checkout that did not settle the order answers
\* with an error.
C14_CheckoutEndsInNamedState ==
    [][\A r \in Reqs :
          (req[r].pc = "payment_failed" /\ req'[r] # req[r])
              => /\ <<orders'[req[r].oid].status,
                      orders'[req[r].oid].payment_status>> \in NamedStates
                 /\ resp'.status >= 400]_vars

\* the checkout r is about to end has written the balance
Moved(r) ==
    /\ req[r].pc = "payment_failed"
    /\ req[r].cause \notin MutatorErrors

\* C15: the error a failed checkout returns tells whether the balance was
\* debited: update_balance writes exactly when it does not raise, and the
\* errors returned after a debit are disjoint from those returned without.
C15_FailureTellsWhetherMoneyMoved ==
    [][\A r \in Reqs :
          /\ (req[r].pc = "debit" /\ req'[r] # req[r]) =>
                ((balance'[req[r].user] # balance[req[r].user])
                    <=> req'[r].cause \notin MutatorErrors)
          /\ (req[r].kind = "checkout" /\ req[r].pc # "idle" /\ req'[r].pc = "idle") =>
                /\ resp'.kind = "checkout" /\ resp'.status >= 400
                /\ Moved(r) <=> resp'.cause \notin (PreconditionErrors \cup MutatorErrors)]_vars

C15_Witness ==
    /\ resp.kind = "checkout" /\ resp.cause = "conflict"
    /\ debits[resp.oid] = 1
    /\ orders[resp.oid].payment_status = "failed"
    /\ balance[resp.user] = init[resp.user] - orders[resp.oid].total_amount

\* the position of a status in the forward sequence, 0 outside it
Rank(status) ==
    CASE status = "pending" -> 1
      [] status = "confirmed" -> 2
      [] status = "processing" -> 3
      [] status = "shipped" -> 4
      [] status = "delivered" -> 5
      [] OTHER -> 0

Allowed(from, to) ==
    \/ Rank(from) > 0 /\ Rank(to) > Rank(from)
    \/ from = "pending" /\ to = "cancelled"
    \/ from \notin {"cancelled", "failed"} /\ to = "failed"

\* C16: every change of an order's status is a forward move in the sequence,
\* a cancel from pending or a move to failed; cancelled and failed are never
\* left.
C16_StatusMovesForward ==
    [][\A o \in 1..Len(orders) :
          orders'[o].status # orders[o].status
              => Allowed(orders[o].status, orders'[o].status)]_vars

C16_Witness ==
    /\ resp.kind = "update_order" /\ resp.status = 200
    /\ orders[resp.oid].status = "cancelled"

\* C17: the ledger is append-only: no step removes a record or changes a
\* field of an existing one.
C17_LedgerAppendOnly ==
    [][/\ Len(ledger') >= Len(ledger)
       /\ \A i \in 1..Len(ledger) : ledger'[i] = ledger[i]]_vars

C17_Witness ==
    /\ Len(ledger) >= 1
    /\ resp.kind = "checkout" /\ resp.cause = "typeerror"

\* C18: a record is appended only by a request whose balance write has
\* committed, with the balance that write stored, and a request reaches the
\* insertion only through a balance write that went through.
C18_RecordAfterCommittedWrite ==
    [][/\ \A r \in Reqs :
             (req[r].pc # "insert" /\ req'[r].pc = "insert")
                 => /\ req[r].pc = "cas"
                    /\ balance[req[r].user] = req[r].cur
                    /\ balance'[req[r].user] = req'[r].new
                    /\ ledger' = ledger
       /\ ledger' # ledger
             => \E r \in Reqs :
                   /\ req[r].pc = "insert" /\ req'[r].pc = "idle"
                   /\ Len(ledger') = Len(ledger) + 1
                   /\ ledger'[Len(ledger')].user = req[r].user
                   /\ ledger'[Len(ledger')].balance = req[r].new
                   /\ resp'.status = 200]_vars

C18_Witness ==
    /\ resp.kind = "users" /\ resp.type = "withdraw" /\ resp.status = 200
    /\ Len(ledger) = 1
    /\ ledger[1].balance = balance[resp.user]

\* C19: once two withdrawals of 50.00 against 60.00 have completed, exactly
\* one has succeeded, the balance is 10.00 with exactly one withdraw record,
\* the other was refused for a concurrent modification or an insufficient
\* balance, and the balance was never negative.
C19_OneOfTwoWithdrawsWins ==
    /\ \A u \in Users : balance[u] >= 0
    /\ (Quiescent /\ started = 2) =>
          \A u \in Users :
              /\ balance[u] = WithdrawBalance - Quantize(WithdrawAmount)
              /\ okDelta[u] = 0 - Quantize(WithdrawAmount)
              /\ Len(ledger) = 1
              /\ ledger[1].type = "withdraw"
              /\ resp.status # 200
                    => resp.cause \in {"conflict", "insufficient", "negative"}

\* C20: a deposit or withdraw that loses the conditional write on the
\* balance ends at once, with balance and ledger unchanged, and answers with
\* the concurrent-modification error (409).
C20_LockLossSurfaced ==
    [][\A r \in Reqs :
          (req[r].pc \in {"cas", "update"} /\ StaleWrite(r) /\ req'[r] # req[r])
              => /\ req'[r].pc = "idle"
                 /\ UNCHANGED <<balance, ledger>>
                 /\ resp'.cause = "conflict"
                 /\ resp'.status = 409]_vars

\* C21: no ledger record has an amount that is not strictly positive.
C21_NoZeroValueRecord ==
    \A i \in 1..Len(ledger) : ledger[i].amount > 0

\* C22: every change of a user's balance is made by a conditional write of a
\* request whose expected balance is the stored one.
C22_OnlyConditionalWrites ==
    [][\A u \in Users :
          balance'[u] # balance[u]
              => \E r \in Reqs :
                    /\ req[r].user = u
                    /\ req[r].pc \in {"cas", "update", "debit"}
                    /\ req[r].cur = balance[u]
                    /\ req'[r] # req[r]]_vars

C22_Witness ==
    /\ resp.kind = "admin_update_user"
    /\ Len(ledger) >= 1
    /\ \E u \in Users : balance[u] # init[u] + okDelta[u]

\* C23: the stock of a product is changed only by the Stock Adjuster.
C23_StockOnlyByAdjuster ==
    [][\A p \in Products :
          products'[p].stock # products[p].stock
              => \E r \in Reqs :
                    /\ req[r].pc = "inc" /\ req[r].product = p
                    /\ req'[r] # req[r]]_vars

\* C24: a decrement of a product that is not active when the decrement is
\* made leaves the stock unchanged and fails as product not found.
C24_NoDecrementOfInactive ==
    [][\A r \in Reqs :
          (req[r].pc = "inc" /\ req[r].type = "subtract" /\ req'[r] # req[r]
           /\ products[req[r].product].status # "active")
              => /\ products' = products
                 /\ resp'.cause = "product_not_found"]_vars

\* C25: the line items and the total of an order never change after its
\* creation, and a checkout debits exactly the total stored in the order.
C25_OrderSnapshotIsFixed ==
    [][/\ \A o \in 1..Len(orders) :
             /\ orders'[o].items = orders[o].items
             /\ orders'[o].total_amount = orders[o].total_amount
       /\ \A r \in Reqs :
             (req[r].pc = "debit" /\ req'[r] # req[r]
              /\ balance'[req[r].user] # balance[req[r].user])
                 => balance'[req[r].user]
                        = balance[req[r].user] - orders[req[r].oid].total_amount]_vars

C25_Witness ==
    \E o \in 1..Len(orders) :
        /\ debits[o] = 1
        /\ \E k \in 1..Len(orders[o].items) :
              orders[o].items[k].price # products[orders[o].items[k].product].price
        /\ balance[orders[o].user] = init[orders[o].user] - orders[o].total_amount

\* C26: no step of a checkout raises the balance or appends a record, and
\* a checkout that stops after its debit leaves the debit in place.
C26_NoCompensation ==
    [][/\ \A r \in Reqs :
             (req[r].kind = "checkout" /\ req'[r] # req[r])
                 => /\ balance'[req[r].user] <= balance[req[r].user]
                    /\ ledger' = ledger
       /\ \A o \in 1..Len(debits) : debits'[o] >= debits[o]]_vars

C26_Witness ==
    /\ started = MaxRequests
    /\ resp.kind # "checkout"
    /\ \E r \in Reqs :
          /\ req[r].pc = "payment_failed" /\ req[r].cause = "typeerror"
          /\ debits[req[r].oid] = 1
          /\ balance[req[r].user] = init[req[r].user] - orders[req[r].oid].total_amount

\* c hundredths is a 2-decimal value nearest to m thousandths
TwoDecimals(c, m) ==
    10 * c - m \in -5..5

\* the change request r makes to the balance of its user in this step
Delta(r) ==
    IF balance'[req[r].user] >= balance[req[r].user]
    THEN balance'[req[r].user] - balance[req[r].user]
    ELSE balance[req[r].user] - balance'[req[r].user]

\* C27: the amount of every balance write and of every ledger record is the
\* requested amount rounded to 2 decimals, and the sufficiency check of a
\* withdraw compares the balance with the rounded amount.
C27_QuantizedBeforeUse ==
    [][\A r \in Reqs :
          /\ (req[r].pc # "cas" /\ req'[r].pc = "cas") =>
                /\ TwoDecimals(req'[r].amt, req'[r].raw)
                /\ req'[r].type = "withdraw" => req'[r].amt <= req'[r].cur
          /\ (req[r].pc = "cas" /\ req'[r].pc = "insert") =>
                /\ TwoDecimals(Delta(r), req[r].raw)
                /\ Delta(r) = req[r].amt
          /\ (req[r].pc = "insert" /\ req'[r] # req[r]) =>
                TwoDecimals(ledger'[Len(ledger')].amount, req[r].raw)
          /\ (req[r].pc = "update" /\ req'[r] # req[r]
              /\ balance' # balance) =>
                TwoDecimals(Delta(r), req[r].raw)]_vars

C27_Witness ==
    /\ Len(ledger) >= 1
    /\ ledger[Len(ledger)].amount = 4
    /\ resp.kind = "transactions" /\ resp.cause = "typeerror"
    /\ \E u \in Users : balance[u] = init[u] + 8

\* the sum of price times quantity over the first n line items
RECURSIVE LineTotal(_, _)
LineTotal(items, n) ==
    IF n = 0 THEN 0
    ELSE items[n].price * items[n].quantity + LineTotal(items, n - 1)

\* C28: an order is created with the unit prices of the products as read
\* for its creation, and its total is the sum of price times quantity over
\* its line items.
C28_TotalIsSumOfLines ==
    [][Len(orders') # Len(orders)
          => /\ Len(orders') = Len(orders) + 1
             /\ LET new == orders'[Len(orders')]
                IN  /\ new.total_amount = LineTotal(new.items, Len(new.items))
                    /\ \E r \in Reqs :
                          /\ req[r].pc = "place" /\ req'[r] # req[r]
                          /\ Len(new.items) = Len(req[r].items)
                          /\ \A k \in 1..Len(new.items) :
                                /\ new.items[k].product = req[r].items[k].product
                                /\ new.items[k].quantity = req[r].items[k].quantity
                                /\ new.items[k].price = req[r].snap[k].price]_vars

C28_Witness ==
    \E o \in 1..Len(orders) :
        /\ Len(orders[o].items) = 2
        /\ orders[o].items[1].quantity = 2
        /\ orders[o].total_amount
              = 2 * orders[o].items[1].price + orders[o].items[2].price
        /\ orders[o].items[1].price # products[orders[o].items[1].product].price

\* C29: a user update goes on to write only when it asks for cancelled on an
\* order read as pending, and then sets the status to cancelled; a request
\* for another status is answered 403 and a cancel of an order that is not
\* pending 400, both without a write.
C29_UserCanOnlyCancelPending ==
    [][\A r \in Reqs :
          /\ (req[r].pc = "idle" /\ req'[r].pc = "set_status") =>
                /\ req'[r].status = "cancelled"
                /\ orders[req'[r].oid].status = "pending"
                /\ orders' = orders
          /\ (req[r].pc = "idle" /\ req'[r].pc = "idle" /\ started' # started
              /\ resp'.kind = "update_order") =>
                /\ orders' = orders
                /\ resp'.cause = "only_cancel" => resp'.status = 403
                /\ resp'.cause = "order_not_pending" =>
                      /\ resp'.status = 400
                      /\ orders[resp'.oid].status # "pending"
          /\ (req[r].pc = "set_status" /\ req'[r] # req[r]) =>
                /\ orders'[req[r].oid].status = "cancelled"
                /\ resp'.kind = "update_order" /\ resp'.status = 200]_vars

C29_Witness ==
    /\ resp.kind = "update_order" /\ resp.cause = "order_not_pending"
    /\ orders[resp.oid].status = "cancelled"
    /\ debits[resp.oid] = 0

\* C30: no order is both cancelled and debited.
C30_CancelledIsNeverDebited ==
    \A o \in 1..Len(orders) :
        orders[o].status = "cancelled" => debits[o] = 0

\* the requests of the deposit and withdraw endpoints
MoneyKinds ==
    {"users", "transactions"}

\* C31: a deposit or withdraw that reports success has written the balance
\* once, by exactly its signed amount, and appends exactly one ledger record
\* with that amount; run alone it leaves the balance changed by exactly that
\* amount.  No step of such a request applies the amount a second time.
C31_SuccessAppliesDeltaOnce ==
    [][\A r \in Reqs :
          LET me == req[r]
              u == me.user
          IN  (me.kind \in MoneyKinds /\ req'[r] # me) =>
                /\ balance' # balance =>
                      /\ balance'[u] = balance[u] + Sign(me.type) * WriteAmount(r)
                      /\ me.pc \in {"cas", "update"}
                      /\ req'[r].pc \notin {"cas", "update"}
                /\ (req'[r].pc = "idle" /\ resp'.status = 200) =>
                      /\ me.pc = "insert"
                      /\ balance' = balance
                      /\ Len(ledger') = Len(ledger) + 1
                      /\ ledger'[Len(ledger')].amount = me.amt
                      /\ ledger'[Len(ledger')].type = me.type
                      /\ ledger'[Len(ledger')].user = u
                      /\ started = 1 =>
                            balance[u] = init[u] + Sign(me.type) * me.amt
                /\ ~(req'[r].pc = "idle" /\ resp'.status = 200) =>
                      ledger' = ledger]_vars

C31_Witness ==
    /\ Quiescent /\ started = 1
    /\ resp.kind = "users" /\ resp.type = "deposit" /\ resp.status = 200
    /\ Len(ledger) = 1
    /\ ledger[1].amount > 0
    /\ balance[resp.user] = init[resp.user] + ledger[1].amount

\* the signed amounts of the first n ledger records of user u
RECURSIVE LedgerNet(_, _)
LedgerNet(u, n) ==
    IF n = 0 THEN 0
    ELSE (IF ledger[n].user = u THEN Sign(ledger[n].type) * ledger[n].amount ELSE 0)
         + LedgerNet(u, n - 1)

\* C32: whenever no request is in flight, the balance of every user is the
\* initial balance plus the deposit and refund records minus the withdraw
\* and payment records of that user.
C32_LedgerAgreesAtQuiescence ==
    Quiescent =>
        \A u \in Users : balance[u] = init[u] + LedgerNet(u, Len(ledger))

\* C33: a checkout of a pending order whose payment_status is failed passes
\* the checks on the order when the balance covers the total; and such a
\* checkout that is rejected by no precondition, loses no lock and ends with
\* no other request in flight leaves the order confirmed and paid.
C33_RetryCheckoutSettles ==
    [][\A r \in Reqs :
          LET oid == req[r].oid
          IN  /\ (/\ req[r].pc = "order" /\ req'[r] # req[r]
                  /\ oid \in 1..Len(orders)
                  /\ orders[oid].user = req[r].user
                  /\ orders[oid].status = "pending"
                  /\ orders[oid].payment_status = "failed"
                  /\ req[r].cur >= orders[oid].total_amount)
                     => req'[r].pc = "products"
              /\ (/\ req[r].kind = "checkout" /\ req[r].pc \notin {"idle", "order"}
                  /\ req'[r].pc = "idle"
                  /\ \A q \in Reqs \ {r} : req[q].pc = "idle"
                  /\ req[r].status = "failed"
                  /\ resp'.cause \notin PreconditionErrors \cup MutatorErrors)
                     => /\ resp'.status = 200
                        /\ orders'[oid].status = "confirmed"
                        /\ orders'[oid].payment_status = "paid"]_vars

\* the requests that name an order by its id
OrderKinds ==
    {"checkout", "update_order", "get_order"}

\* C34: a checkout, read or update of an order owned by another user is
\* answered 404 order not found, and leaves every balance, the ledger, the
\* stock and every order as they were.
C34_ForeignOrderNotFound ==
    [][/\ \A r \in Reqs :
             (/\ req[r].pc = "order" /\ req'[r] # req[r]
              /\ req[r].oid \in 1..Len(orders)
              /\ orders[req[r].oid].user # req[r].user)
                 => /\ req'[r].pc = "idle"
                    /\ resp'.status = 404 /\ resp'.cause = "order_not_found"
                    /\ UNCHANGED <<balance, ledger, products, orders>>
       /\ (/\ started' # started /\ req' = req
           /\ resp'.kind \in OrderKinds
           /\ resp'.oid \in 1..Len(orders)
           /\ orders[resp'.oid].user # resp'.user)
              => /\ resp'.status = 404 /\ resp'.cause = "order_not_found"
                 /\ UNCHANGED <<balance, ledger, products, orders>>
       /\ \A r \in Reqs :
             (req'[r].pc = "set_status" /\ req[r].pc = "idle")
                 => orders[req'[r].oid].user = req'[r].user]_vars

C34_Witness ==
    /\ resp.kind = "checkout" /\ resp.cause = "order_not_found"
    /\ resp.oid \in 1..Len(orders)
    /\ orders[resp.oid].user # resp.user
    /\ orders[resp.oid].payment_status = "pending"
    /\ balance = init

\* request r read, for one of its items, no product, a product that is not
\* active, or a stock below the quantity it asks for
Unavailable(r) ==
    \E i \in 1..Len(req[r].items) :
        \/ req[r].snap[i] = NotFound
        \/ req[r].snap[i].status # "active"
        \/ req[r].snap[i].stock < req[r].items[i].quantity

\* C35: no step of create_order changes the stock, the balance or the
\* ledger; when a requested product, as read by the request, is missing, not
\* active or short of the requested quantity, the request is answered with
\* an error and inserts no order, and otherwise it inserts one order.
C35_CreateOrderReservesNothing ==
    [][\A r \in Reqs :
          /\ (req'[r] # req[r] /\ "create_order" \in {req[r].kind, req'[r].kind})
                => UNCHANGED <<products, balance, ledger>>
          /\ (req[r].pc = "place" /\ req'[r] # req[r])
                => IF Unavailable(r)
                   THEN /\ orders' = orders
                        /\ resp'.status \in {400, 404}
                   ELSE /\ Len(orders') = Len(orders) + 1
                        /\ resp'.status = 200]_vars

C35_Witness ==
    /\ resp.kind = "create_order" /\ resp.cause = "insufficient_stock"
    /\ orders = <<>>
    /\ products = InitProducts

\* C37: no user has more than one cart.
C37_OneCartPerUser ==
    \A u \in Users : Cardinality(CartsOf(u)) <= 1

\* the place of a version in the list of migrations
Pos(version) ==
    CHOOSE i \in 1..Len(MIGRATIONS) : MIGRATIONS[i] = version

====
